---- MODULE Spec2Model ----
(***************************************************************************)
(* Model of core/handler/convert_fields_custom.go: the payload-function    *)
(* pipelines of the handler.                                               *)
(*                                                                         *)
(*   uplink   : Decode -> Convert -> Validate   (UplinkFunctions)          *)
(*   downlink : Encode                          (DownlinkFunctions)        *)
(*                                                                         *)
(* Every non-empty payload function is run through functions.RunCode with  *)
(* the package-level timeOut; the value it returns is type-checked before  *)
(* it is used.  An invocation is modelled step by step: a stage first      *)
(* builds its environment and submits the code (XxxCall), and later takes  *)
(* the result of RunCode and coerces it (XxxReturn).  Several invocations  *)
(* may be in flight on the same function objects.                          *)
(***************************************************************************)
EXTENDS Integers, Sequences, FiniteSets, TLC

\* ------------------------------------------------------------------------
\* Bounds of the model
\* ------------------------------------------------------------------------

\* longest array an Encoder returns
MaxLen == 2

\* ports are 1..MaxPort (port is a uint8 in the code)
MaxPort == 2

\* ------------------------------------------------------------------------
\* Program constants
\* ------------------------------------------------------------------------

\* var timeOut = 100 * time.Millisecond, in milliseconds
DefaultTimeOut == 100

\* the two invocations that may run concurrently
Invocations == {"A", "B"}

Ports == 1..MaxPort

\* ------------------------------------------------------------------------
\* Numbers.  An element of an exported array is a Go value with a dynamic
\* type.  Its numeric value is  hi * 2^63 + lo + half/2  with |lo| < 512,
\* which represents exactly the values next to 0, 2^63 and 2^64 that the
\* 64-bit conversions of the element loop distinguish.
\* ------------------------------------------------------------------------

Num(h, l, f) == [hi |-> h, lo |-> l, half |-> f]

El(t, h, l, f) == [type |-> t, hi |-> h, lo |-> l, half |-> f]

NumOf(el) == Num(el.hi, el.lo, el.half)

MinInt64 == Num(-1, 0, 0)

MaxInt64 == Num(1, -1, 0)

\* n is a value an int64 holds
InInt64(n) ==
    /\ n.half = 0
    /\ \/ n.hi = 0
       \/ n.hi = -1 /\ n.lo >= 0
       \/ n.hi = 1 /\ n.lo < 0

\* n < 0 for an int64 n
Int64Negative(n) == n.hi < 0 \/ (n.hi = 0 /\ n.lo < 0)

\* n > 255 for an int64 n
Int64Above255(n) == n.hi > 0 \/ (n.hi = 0 /\ n.lo > 255)

\* int64(t) for a uint64 t: values from 2^63 on wrap to t - 2^64
Uint64ToInt64(t) ==
    IF (t.hi = 1 /\ t.lo >= 0) \/ t.hi = 2
    THEN Num(t.hi - 2, t.lo, 0)
    ELSE Num(t.hi, t.lo, 0)

\* truncation toward zero of a floating-point value
Truncate(t) ==
    IF t.half = 0 THEN t
    ELSE IF t.lo >= 0 THEN Num(t.hi, t.lo, 0)
    ELSE Num(t.hi, t.lo + 1, 0)

\* int64(t) for a floating-point t.  When the truncated value is no int64
\* the Go conversion succeeds with an implementation-dependent result:
\* amd64 yields the minimal int64, arm64 saturates.
FloatToInt64(t) ==
    IF InInt64(Truncate(t)) THEN {Truncate(t)}
    ELSE {MinInt64, MaxInt64}

\* float64(n), float32(n) for an int64 n: exact near 0, rounded to the
\* nearest representable value (a multiple of 1024 at least) near +-2^63
Int64ToFloat(n) ==
    IF n.hi = 0 THEN n
    ELSE IF n.hi = 1 THEN Num(1, 0, 0)
    ELSE Num(-1, 0, 0)

\* byte(n) for an int64 n: the low eight bits (2^63 and 2^64 are 0 mod 256)
ByteOf(n) == n.lo % 256

\* ------------------------------------------------------------------------
\* Field maps, byte slices, errors
\* ------------------------------------------------------------------------

Keys == {"a", "port"}

FieldVals == {7, 255, 300} \cup Ports

\* map[string]interface{}: nil, or a set of key/value pairs
NilMap == [nil |-> TRUE, kv |-> {}]

Map(pairs) == [nil |-> FALSE, kv |-> pairs]

\* []byte: nil, or a sequence of bytes
NilBytes == [nil |-> TRUE, b |-> <<>>]

Bytes(seq) == [nil |-> FALSE, b |-> seq]

\* a nil error
NoErr == [type |-> "nil", name |-> "", reason |-> ""]

\* errors.NewErrInvalidArgument(argument, reason)
NewErrInvalidArgument(argument, reason) ==
    [type |-> "InvalidArgument", name |-> argument, reason |-> reason]

\* ------------------------------------------------------------------------
\* Values returned by the script runtime
\* ------------------------------------------------------------------------

\* the dynamic types the element loop of Encode lists without a check
IntegerCases ==
    {"byte", "int", "int8", "int16", "uint16", "int32", "uint32", "int64"}

\* the elements an exported array is built from: 255 as a byte, 256 as an
\* int, 7 and 2^63+5 as uint64, the float64 values 0, 255, 1.5, -1, 2^63
\* and 2^64, 3 as a float32, 5 as a uint, and a string
Elements ==
    { El("byte", 0, 255, 0), El("int", 0, 256, 0),
      El("uint64", 0, 7, 0), El("uint64", 1, 5, 0),
      El("float64", 0, 0, 0), El("float64", 0, 255, 0),
      El("float64", 0, 1, 1), El("float64", 0, -1, 0),
      El("float64", 1, 0, 0), El("float64", 2, 0, 0),
      El("float32", 0, 3, 0),
      El("uint", 0, 5, 0), El("string", 0, 0, 0) }

SeqsUpTo(S, n) == UNION {[1..k -> S] : k \in 0..n}

ObjectValue(m) == [tag |-> "Object", obj |-> m, bool |-> FALSE, arr |-> <<>>]

BooleanValue(b) == [tag |-> "Boolean", obj |-> {}, bool |-> b, arr |-> <<>>]

ArrayValue(s) == [tag |-> "Array", obj |-> {}, bool |-> FALSE, arr |-> s]

\* undefined, null, a number, a string
OtherValue == [tag |-> "Other", obj |-> {}, bool |-> FALSE, arr |-> <<>>]

\* otto: an array is an object too
IsObject(value) == value.tag \in {"Object", "Array"}

IsBoolean(value) == value.tag = "Boolean"

\* value.ToBoolean() of a boolean value
ToBoolean(value) == value.bool

\* value.Export(): an object exports as a map[string]interface{}, an array
\* as a slice
ExportIsMap(value) == value.tag = "Object"

ExportIsSlice(value) == value.tag = "Array"

\* ------------------------------------------------------------------------
\* The element loop of Encode
\* ------------------------------------------------------------------------

\* the type switch: the possible (n, err) for one element
ElementSwitch(el) ==
    IF el.type \in IntegerCases
    THEN {[n |-> NumOf(el), err |-> NoErr]}
    ELSE IF el.type = "uint64"
    THEN {[n |-> Uint64ToInt64(NumOf(el)), err |-> NoErr]}
    ELSE IF el.type \in {"float32", "float64"}
    THEN {[n |-> n,
           err |-> IF Int64ToFloat(n) # NumOf(el)
                   THEN NewErrInvalidArgument("Encoder",
                            "should return an Array of integer numbers")
                   ELSE NoErr] : n \in FloatToInt64(NumOf(el))}
    ELSE {[n |-> Num(0, 0, 0),
           err |-> NewErrInvalidArgument("Encoder",
                       "should return an Array of integer numbers")]}

\* n < 0 || n > 255
OutOfByteRange(n) == Int64Negative(n) \/ Int64Above255(n)

\* for i := 0; i < l; i++ { ... }: the possible results of the loop from
\* index i on, res holding the bytes written so far
RECURSIVE EncodeLoop(_, _, _)
EncodeLoop(s, i, res) ==
    IF i > Len(s)
    THEN {[bytes |-> Bytes(res), err |-> NoErr]}
    ELSE UNION {
        IF c.err # NoErr
        THEN {[bytes |-> NilBytes, err |-> c.err]}
        ELSE IF OutOfByteRange(c.n)
        THEN {[bytes |-> NilBytes,
               err |-> NewErrInvalidArgument("Encoder Output",
                           "Numbers in Array should be between 0 and 255")]}
        ELSE EncodeLoop(s, i + 1, Append(res, ByteOf(c.n)))
        : c \in ElementSwitch(s[i]) }

\* ------------------------------------------------------------------------
\* Payload functions and functions.RunCode
\* ------------------------------------------------------------------------

\* the payload functions of the round trip: the Decoder returns the first
\* payload byte as field a, the Encoder returns field a as the only byte
EchoDecoder ==
    "function Decoder(payload, port) { return {a: payload[0], port: port} }"

EchoConverter ==
    "function Converter(fields, port) { return {a: fields.a, port: port} }"

EchoValidator ==
    "function Validator(fields, port) { return fields.a !== undefined && fields.port === port }"

EchoEncoder ==
    "function Encoder(payload, port) { return [payload.a] }"

\* any other payload function: what it returns is not known
UserScript == "function (...) { /* user code */ }"

\* the environment of one RunCode call: the names bound, and their values
Env(names, bytes, map, port) ==
    [names |-> names, bytes |-> bytes, map |-> map, port |-> port]

\* fmt.Sprintf of the function and of the expression that calls it
Code(script, invoke) == [script |-> script, invoke |-> invoke]

Returned(value) == [value |-> value, err |-> NoErr]

Failed(type, name) ==
    [value |-> OtherValue, err |-> [type |-> type, name |-> name, reason |-> ""]]

\* undefined exports as a value that is no number
Undefined == El("undefined", 0, 0, 0)

\* the value of field key of map m as a number of the script (a float64)
FieldElement(m, key) ==
    IF \E v \in FieldVals : <<key, v>> \in m.kv
    THEN El("float64", 0, (CHOOSE v \in FieldVals : <<key, v>> \in m.kv), 0)
    ELSE Undefined

\* the arrays a payload function may return to the stage called name
ArraysOf(name) ==
    IF name = "Encoder" THEN SeqsUpTo(Elements, MaxLen)
    ELSE {<<>>, <<El("byte", 0, 0, 0)>>}

\* what a payload function of unknown text may do: return a value of any
\* tag, throw, or run until the timeout stops it
UserOutcomes(name) ==
    {Returned(ObjectValue(m)) : m \in {{}, {<<"a", 7>>}}}
    \cup {Returned(BooleanValue(b)) : b \in BOOLEAN}
    \cup {Returned(ArrayValue(s)) : s \in ArraysOf(name)}
    \cup {Returned(OtherValue), Failed("Timeout", name), Failed("Runtime", name)}

\* functions.RunCode(name, code, env, timeout, logger): the possible
\* results of one run of the code in a fresh context
RunCode(name, code, env, timeout) ==
    IF code.script = EchoDecoder /\ name = "Decoder"
    THEN {Returned(ObjectValue(
            (IF Len(env.bytes) > 0 THEN {<<"a", env.bytes[1]>>} ELSE {})
            \cup {<<"port", env.port>>}))}
    ELSE IF code.script = EchoConverter /\ name = "Converter"
    THEN IF env.map.nil THEN {Failed("Runtime", name)}
         ELSE {Returned(ObjectValue(
                 {kv \in env.map.kv : kv[1] = "a"} \cup {<<"port", env.port>>}))}
    ELSE IF code.script = EchoValidator /\ name = "Validator"
    THEN IF env.map.nil THEN {Failed("Runtime", name)}
         ELSE {Returned(BooleanValue(
                 /\ \E kv \in env.map.kv : kv[1] = "a"
                 /\ <<"port", env.port>> \in env.map.kv))}
    ELSE IF code.script = EchoEncoder /\ name = "Encoder"
    THEN IF env.map.nil THEN {Failed("Runtime", name)}
         ELSE {Returned(ArrayValue(<<FieldElement(env.map, "a")>>))}
    ELSE IF code.script = UserScript
    THEN UserOutcomes(name)
    ELSE {Failed("Runtime", name)}

\* ------------------------------------------------------------------------
\* The stages: what each does with the result of RunCode
\* ------------------------------------------------------------------------

\* Decode without the assertion on the exported value: an array, which
\* is an object too, is taken for a field map
DecodeResultUnasserted(out) ==
    IF out.err # NoErr
    THEN [m |-> NilMap, err |-> out.err]
    ELSE IF ~IsObject(out.value)
    THEN [m |-> NilMap,
          err |-> NewErrInvalidArgument("Decoder", "does not return an object")]
    ELSE [m |-> Map(out.value.obj), err |-> NoErr]

\* UplinkFunctions.Decode after RunCode
DecodeResult(out) ==
    IF out.err # NoErr
    THEN [m |-> NilMap, err |-> out.err]
    ELSE IF ~IsObject(out.value)
    THEN [m |-> NilMap,
          err |-> NewErrInvalidArgument("Decoder", "does not return an object")]
    ELSE IF ~ExportIsMap(out.value)
    THEN [m |-> NilMap,
          err |-> NewErrInvalidArgument("Decoder", "does not return an object")]
    ELSE [m |-> Map(out.value.obj), err |-> NoErr]

\* UplinkFunctions.Convert after RunCode
ConvertResult(out) ==
    IF out.err # NoErr
    THEN [m |-> NilMap, err |-> out.err]
    ELSE IF ~IsObject(out.value)
    THEN [m |-> NilMap,
          err |-> NewErrInvalidArgument("Converter", "does not return an object")]
    ELSE IF ~ExportIsMap(out.value)
    THEN [m |-> NilMap,
          err |-> NewErrInvalidArgument("Converter", "does not return an object")]
    ELSE [m |-> Map(out.value.obj), err |-> NoErr]

\* Validate that takes a value that is no boolean for false
ValidateResultLenient(out) ==
    IF out.err # NoErr
    THEN [valid |-> FALSE, err |-> out.err]
    ELSE IF ~IsBoolean(out.value)
    THEN [valid |-> FALSE, err |-> NoErr]
    ELSE [valid |-> ToBoolean(out.value), err |-> NoErr]

\* UplinkFunctions.Validate after RunCode
ValidateResult(out) ==
    IF out.err # NoErr
    THEN [valid |-> FALSE, err |-> out.err]
    ELSE IF ~IsBoolean(out.value)
    THEN [valid |-> FALSE,
          err |-> NewErrInvalidArgument("Validator", "does not return a boolean")]
    ELSE [valid |-> ToBoolean(out.value), err |-> NoErr]

\* DownlinkFunctions.Encode after RunCode: the possible results (Export
\* of the runtime returns no error, its test has no branch here)
EncodeResult(out) ==
    IF out.err # NoErr
    THEN {[bytes |-> NilBytes, err |-> out.err]}
    ELSE IF ~IsObject(out.value)
    THEN {[bytes |-> NilBytes,
           err |-> NewErrInvalidArgument("Encoder", "does not return an object")]}
    ELSE IF ~ExportIsSlice(out.value)
    THEN {[bytes |-> NilBytes,
           err |-> NewErrInvalidArgument("Encoder", "does not return an Array")]}
    ELSE EncodeLoop(out.value.arr, 1, <<>>)

\* DownlinkFunctions.Encode without an Encoder
MissingEncoderError ==
    NewErrInvalidArgument("Downlink Payload",
                          "fields supplied, but no Encoder function set")

\* ------------------------------------------------------------------------
\* The results of the pipelines
\* ------------------------------------------------------------------------

Result(fields, flag, bytes, err) ==
    [fields |-> fields, flag |-> flag, bytes |-> bytes, err |-> err]

NoResult == Result(NilMap, FALSE, NilBytes, NoErr)

\* uplink: return nil, false, err
UplinkAbort(err) == Result(NilMap, FALSE, NilBytes, err)

\* uplink: return converted, valid, err
UplinkReturn(conv, valid, err) == Result(conv, valid, NilBytes, err)

\* downlink: return nil, false, err / return encoded, true, nil
DownlinkReturn(encoded, err) ==
    IF err # NoErr
    THEN Result(NilMap, FALSE, NilBytes, err)
    ELSE Result(NilMap, TRUE, encoded, NoErr)

\* ------------------------------------------------------------------------
\* State
\* ------------------------------------------------------------------------

VARIABLES
    uplinkFns,    \* the UplinkFunctions object: Decoder, Converter, Validator
    downlinkFns,  \* the DownlinkFunctions object: Encoder
    timeOut,      \* the package variable timeOut
    active,       \* the invocations that take place
    pc,           \* where each invocation is
    args,         \* the arguments of each invocation
    decoded,      \* uplink: the local variable decoded
    converted,    \* uplink: the local variable converted
    running,      \* the RunCode call each invocation is waiting for
    calls,        \* the RunCode calls each invocation has made, in order
    outs,         \* what these calls returned, in order
    result        \* what each invocation returned to its caller

vars == <<uplinkFns, downlinkFns, timeOut, active, pc, args, decoded,
          converted, running, calls, outs, result>>

Payloads == {<<>>, <<7>>, <<255>>}

DownlinkFields ==
    {NilMap, Map({}), Map({<<"a", 7>>}), Map({<<"a", 300>>})}

Args(kind, bytes, map, port) ==
    [kind |-> kind, bytes |-> bytes, map |-> map, port |-> port]

NoArgs == Args("none", <<>>, NilMap, 0)

Call(name, code, env, timeout) ==
    [name |-> name, code |-> code, env |-> env, timeout |-> timeout]

NoCall == Call("", Code("", ""), Env({}, <<>>, NilMap, 0), 0)

UplinkFunctionSets ==
    [Decoder : {"", EchoDecoder, UserScript},
     Converter : {"", EchoConverter, UserScript},
     Validator : {"", EchoValidator, UserScript}]

DownlinkFunctionSets == [Encoder : {"", EchoEncoder, UserScript}]

InitLocals ==
    /\ timeOut = DefaultTimeOut
    /\ pc = [p \in Invocations |-> "idle"]
    /\ args = [p \in Invocations |-> NoArgs]
    /\ decoded = [p \in Invocations |-> NilMap]
    /\ converted = [p \in Invocations |-> NilMap]
    /\ running = [p \in Invocations |-> NoCall]
    /\ calls = [p \in Invocations |-> <<>>]
    /\ outs = [p \in Invocations |-> <<>>]
    /\ result = [p \in Invocations |-> NoResult]

\* one invocation on any function objects
Init ==
    /\ uplinkFns \in UplinkFunctionSets
    /\ downlinkFns \in DownlinkFunctionSets
    /\ active = {"A"}
    /\ InitLocals

\* ------------------------------------------------------------------------
\* Uplink: func (f *UplinkFunctions) Decode(payload, port) (map, bool, error)
\* ------------------------------------------------------------------------

\* the caller invokes the uplink pipeline
UplinkInvoke(p) ==
    /\ p \in active
    /\ pc[p] = "idle"
    /\ \E payload \in Payloads, port \in Ports :
         args' = [args EXCEPT ![p] = Args("uplink", payload, NilMap, port)]
    /\ pc' = [pc EXCEPT ![p] = "decode"]
    /\ UNCHANGED <<uplinkFns, downlinkFns, timeOut, active, decoded,
                   converted, running, calls, outs, result>>

\* submit a call to RunCode and wait for it
Submit(p, c, at) ==
    /\ running' = [running EXCEPT ![p] = c]
    /\ calls' = [calls EXCEPT ![p] = Append(@, c)]
    /\ pc' = [pc EXCEPT ![p] = at]

\* Decode without the test for an empty Decoder
DecodeCallAlways(p) ==
    /\ pc[p] = "decode"
    /\ Submit(p, Call("Decoder",
                      Code(uplinkFns.Decoder, "Decoder(payload.slice(0), port);"),
                      Env({"payload", "port"}, args[p].bytes, NilMap,
                          args[p].port),
                      timeOut), "decoding")
    /\ UNCHANGED <<uplinkFns, downlinkFns, timeOut, active, args, decoded,
                   converted, outs, result>>

\* decoded, err := f.Decode(payload, port), up to the call of RunCode
DecodeCall(p) ==
    /\ pc[p] = "decode"
    /\ IF uplinkFns.Decoder = ""
       THEN /\ decoded' = [decoded EXCEPT ![p] = NilMap]
            /\ pc' = [pc EXCEPT ![p] = "convert"]
            /\ UNCHANGED <<running, calls>>
       ELSE /\ Submit(p, Call("Decoder",
                              Code(uplinkFns.Decoder,
                                   "Decoder(payload.slice(0), port);"),
                              Env({"payload", "port"}, args[p].bytes, NilMap,
                                  args[p].port),
                              timeOut), "decoding")
            /\ UNCHANGED decoded
    /\ UNCHANGED <<uplinkFns, downlinkFns, timeOut, active, args, converted,
                   outs, result>>

\* RunCode returns to Decode; on an error the pipeline returns
DecodeReturn(p) ==
    /\ pc[p] = "decoding"
    /\ \E out \in RunCode(running[p].name, running[p].code, running[p].env,
                          running[p].timeout) :
         LET r == DecodeResult(out) IN
           /\ outs' = [outs EXCEPT ![p] = Append(@, out)]
           /\ IF r.err # NoErr
              THEN /\ result' = [result EXCEPT ![p] = UplinkAbort(r.err)]
                   /\ pc' = [pc EXCEPT ![p] = "done"]
                   /\ UNCHANGED decoded
              ELSE /\ decoded' = [decoded EXCEPT ![p] = r.m]
                   /\ pc' = [pc EXCEPT ![p] = "convert"]
                   /\ UNCHANGED result
    /\ running' = [running EXCEPT ![p] = NoCall]
    /\ UNCHANGED <<uplinkFns, downlinkFns, timeOut, active, args, converted,
                   calls>>

\* Convert called without the output of Decode: fields is bound to nil
ConvertCallUnbound(p) ==
    /\ pc[p] = "convert"
    /\ IF uplinkFns.Converter = ""
       THEN /\ converted' = [converted EXCEPT ![p] = decoded[p]]
            /\ pc' = [pc EXCEPT ![p] = "validate"]
            /\ UNCHANGED <<running, calls>>
       ELSE /\ Submit(p, Call("Converter",
                              Code(uplinkFns.Converter,
                                   "Converter(fields, port)"),
                              Env({"fields", "port"}, <<>>, NilMap,
                                  args[p].port),
                              timeOut), "converting")
            /\ UNCHANGED converted
    /\ UNCHANGED <<uplinkFns, downlinkFns, timeOut, active, args, decoded,
                   outs, result>>

\* converted, err := f.Convert(decoded, port), up to the call of RunCode
ConvertCall(p) ==
    /\ pc[p] = "convert"
    /\ IF uplinkFns.Converter = ""
       THEN /\ converted' = [converted EXCEPT ![p] = decoded[p]]
            /\ pc' = [pc EXCEPT ![p] = "validate"]
            /\ UNCHANGED <<running, calls>>
       ELSE /\ Submit(p, Call("Converter",
                              Code(uplinkFns.Converter,
                                   "Converter(fields, port)"),
                              Env({"fields", "port"}, <<>>, decoded[p],
                                  args[p].port),
                              timeOut), "converting")
            /\ UNCHANGED converted
    /\ UNCHANGED <<uplinkFns, downlinkFns, timeOut, active, args, decoded,
                   outs, result>>

\* RunCode returns to Convert; on an error the pipeline returns
ConvertReturn(p) ==
    /\ pc[p] = "converting"
    /\ \E out \in RunCode(running[p].name, running[p].code, running[p].env,
                          running[p].timeout) :
         LET r == ConvertResult(out) IN
           /\ outs' = [outs EXCEPT ![p] = Append(@, out)]
           /\ IF r.err # NoErr
              THEN /\ result' = [result EXCEPT ![p] = UplinkAbort(r.err)]
                   /\ pc' = [pc EXCEPT ![p] = "done"]
                   /\ UNCHANGED converted
              ELSE /\ converted' = [converted EXCEPT ![p] = r.m]
                   /\ pc' = [pc EXCEPT ![p] = "validate"]
                   /\ UNCHANGED result
    /\ running' = [running EXCEPT ![p] = NoCall]
    /\ UNCHANGED <<uplinkFns, downlinkFns, timeOut, active, args, decoded,
                   calls>>

\* Validate with an environment kept in the function object: the fields
\* bound may be those another invocation has converted
ValidateCallShared(p) ==
    /\ pc[p] = "validate"
    /\ IF uplinkFns.Validator = ""
       THEN /\ result' = [result EXCEPT ![p] =
                             UplinkReturn(converted[p], TRUE, NoErr)]
            /\ pc' = [pc EXCEPT ![p] = "done"]
            /\ UNCHANGED <<running, calls>>
       ELSE /\ \E q \in Invocations :
                 Submit(p, Call("Validator",
                                Code(uplinkFns.Validator,
                                     "Validator(fields, port)"),
                                Env({"fields", "port"}, <<>>, converted[q],
                                    args[p].port),
                                timeOut), "validating")
            /\ UNCHANGED result
    /\ UNCHANGED <<uplinkFns, downlinkFns, timeOut, active, args, decoded,
                   converted, outs>>

\* valid, err := f.Validate(converted, port), up to the call of RunCode;
\* without a Validator the pipeline returns converted, true, nil
ValidateCall(p) ==
    /\ pc[p] = "validate"
    /\ IF uplinkFns.Validator = ""
       THEN /\ result' = [result EXCEPT ![p] =
                             UplinkReturn(converted[p], TRUE, NoErr)]
            /\ pc' = [pc EXCEPT ![p] = "done"]
            /\ UNCHANGED <<running, calls>>
       ELSE /\ Submit(p, Call("Validator",
                              Code(uplinkFns.Validator,
                                   "Validator(fields, port)"),
                              Env({"fields", "port"}, <<>>, converted[p],
                                  args[p].port),
                              timeOut), "validating")
            /\ UNCHANGED result
    /\ UNCHANGED <<uplinkFns, downlinkFns, timeOut, active, args, decoded,
                   converted, outs>>

\* RunCode returns to Validate; return converted, valid, err
ValidateReturn(p) ==
    /\ pc[p] = "validating"
    /\ \E out \in RunCode(running[p].name, running[p].code, running[p].env,
                          running[p].timeout) :
         LET r == ValidateResult(out) IN
           /\ outs' = [outs EXCEPT ![p] = Append(@, out)]
           /\ result' = [result EXCEPT ![p] =
                            UplinkReturn(converted[p], r.valid, r.err)]
    /\ pc' = [pc EXCEPT ![p] = "done"]
    /\ running' = [running EXCEPT ![p] = NoCall]
    /\ UNCHANGED <<uplinkFns, downlinkFns, timeOut, active, args, decoded,
                   converted, calls>>

\* ------------------------------------------------------------------------
\* Downlink: func (f *DownlinkFunctions) Encode(payload, port) ([]byte, bool, error)
\* ------------------------------------------------------------------------

\* the caller invokes the downlink pipeline
DownlinkInvoke(p) ==
    /\ p \in active
    /\ pc[p] = "idle"
    /\ \E fields \in DownlinkFields, port \in Ports :
         args' = [args EXCEPT ![p] = Args("downlink", <<>>, fields, port)]
    /\ pc' = [pc EXCEPT ![p] = "encode"]
    /\ UNCHANGED <<uplinkFns, downlinkFns, timeOut, active, decoded,
                   converted, running, calls, outs, result>>

\* encoded, err := f.Encode(payload, port), up to the call of RunCode;
\* without an Encoder the pipeline returns nil, false, err
EncodeCall(p) ==
    /\ pc[p] = "encode"
    /\ IF downlinkFns.Encoder = ""
       THEN /\ result' = [result EXCEPT ![p] =
                             DownlinkReturn(NilBytes, MissingEncoderError)]
            /\ pc' = [pc EXCEPT ![p] = "done"]
            /\ UNCHANGED <<running, calls>>
       ELSE /\ Submit(p, Call("Encoder",
                              Code(downlinkFns.Encoder,
                                   "Encoder(payload, port)"),
                              Env({"payload", "port"}, <<>>, args[p].map,
                                  args[p].port),
                              timeOut), "encoding")
            /\ UNCHANGED result
    /\ UNCHANGED <<uplinkFns, downlinkFns, timeOut, active, args, decoded,
                   converted, outs>>

\* RunCode returns to Encode; the pipeline returns
EncodeReturn(p) ==
    /\ pc[p] = "encoding"
    /\ \E out \in RunCode(running[p].name, running[p].code, running[p].env,
                          running[p].timeout) :
         \E r \in EncodeResult(out) :
           /\ outs' = [outs EXCEPT ![p] = Append(@, out)]
           /\ result' = [result EXCEPT ![p] = DownlinkReturn(r.bytes, r.err)]
    /\ pc' = [pc EXCEPT ![p] = "done"]
    /\ running' = [running EXCEPT ![p] = NoCall]
    /\ UNCHANGED <<uplinkFns, downlinkFns, timeOut, active, args, decoded,
                   converted, calls>>

\* ------------------------------------------------------------------------
\* Specifications
\* ------------------------------------------------------------------------

Step(p) ==
    \/ UplinkInvoke(p)
    \/ DecodeCall(p)
    \/ DecodeReturn(p)
    \/ ConvertCall(p)
    \/ ConvertReturn(p)
    \/ ValidateCall(p)
    \/ ValidateReturn(p)
    \/ DownlinkInvoke(p)
    \/ EncodeCall(p)
    \/ EncodeReturn(p)

Next == \E p \in Invocations : Step(p)

Spec == Init /\ [][Next]_vars

\* two concurrent invocations on function objects whose payload functions
\* are known
ConcInit ==
    /\ uplinkFns \in [Decoder : {"", EchoDecoder},
                      Converter : {"", EchoConverter},
                      Validator : {"", EchoValidator}]
    /\ downlinkFns \in [Encoder : {"", EchoEncoder}]
    /\ active = Invocations
    /\ InitLocals

ConcSpec == ConcInit /\ [][Next]_vars

\* ------------------------------------------------------------------------
\* Vocabulary of the properties
\* ------------------------------------------------------------------------

Done(p) == pc[p] = "done"

IsUplink(p) == args[p].kind = "uplink"

IsDownlink(p) == args[p].kind = "downlink"

LastCall(p) == calls[p][Len(calls[p])]

LastOut(p) == outs[p][Len(outs[p])]

\* the RunCode call named name has returned
HasOut(p, name) == \E i \in 1..Len(outs[p]) : calls[p][i].name = name

OutOf(p, name) ==
    outs[p][CHOOSE i \in 1..Len(outs[p]) : calls[p][i].name = name]

\* the field map the Decode stage hands on
DecodeOutput(p) ==
    IF HasOut(p, "Decoder") THEN Map(OutOf(p, "Decoder").value.obj) ELSE NilMap

\* the field map the Convert stage hands on
ConvertOutput(p) ==
    IF HasOut(p, "Converter") THEN Map(OutOf(p, "Converter").value.obj)
    ELSE DecodeOutput(p)

UplinkStages == <<"Decoder", "Converter", "Validator">>

StageNames == {"Decoder", "Converter", "Validator", "Encoder"}

Pos(name) == CHOOSE k \in 1..Len(UplinkStages) : UplinkStages[k] = name

\* an uplink stage ends in an error: the gateway failed, or the value has
\* the wrong tag
StageFailed(name, out) ==
    \/ out.err # NoErr
    \/ name \in {"Decoder", "Converter"} /\ out.value.tag # "Object"
    \/ name = "Validator" /\ out.value.tag # "Boolean"

\* the error kinds of the design, by the messages of the code
IsInvalidReturnType(e) ==
    /\ e.type = "InvalidArgument"
    /\ e.reason \in {"does not return an object", "does not return a boolean",
                     "does not return an Array",
                     "should return an Array of integer numbers"}

IsOutOfRange(e) ==
    /\ e.type = "InvalidArgument"
    /\ e.reason = "Numbers in Array should be between 0 and 255"

IsMissingEncoder(e) ==
    /\ e.type = "InvalidArgument"
    /\ e.reason = "fields supplied, but no Encoder function set"

NumberTypes == IntegerCases \cup {"uint", "uint64", "float32", "float64"}

IsNumber(el) == el.type \in NumberTypes

\* a whole number
IsWhole(el) == IsNumber(el) /\ el.half = 0

\* a whole number in [0,255]
WholeByte(el) == IsWhole(el) /\ el.hi = 0 /\ el.lo >= 0 /\ el.lo <= 255

\* ------------------------------------------------------------------------
\* C1
\* ------------------------------------------------------------------------

\* C1: when a stage of an uplink invocation ends in an error, the pipeline
\* returns an error together with isValid = false and a nil field map.
C1_StageErrorDiscardsFields ==
    \A p \in Invocations :
      (Done(p) /\ IsUplink(p)) =>
        /\ (\E i \in 1..Len(outs[p]) : StageFailed(calls[p][i].name, outs[p][i]))
             => result[p].err # NoErr
        /\ result[p].err # NoErr
             => (result[p].flag = FALSE /\ result[p].fields = NilMap)

\* ------------------------------------------------------------------------
\* C2
\* ------------------------------------------------------------------------

ValidatorSaidFalse(p) ==
    /\ uplinkFns.Validator # ""
    /\ Len(outs[p]) > 0
    /\ LastCall(p).name = "Validator"
    /\ LastOut(p) = Returned(BooleanValue(FALSE))

\* C2: a Validator that returns Boolean false makes the uplink pipeline
\* return (fields, false, nil) with fields the output of Convert; the
\* outcome (false, nil) occurs only then; (true, err) never occurs.
C2_RejectionIsNotAnError ==
    \A p \in Invocations :
      (Done(p) /\ IsUplink(p)) =>
        /\ ValidatorSaidFalse(p)
             => result[p] = Result(ConvertOutput(p), FALSE, NilBytes, NoErr)
        /\ (result[p].flag = FALSE /\ result[p].err = NoErr)
             => ValidatorSaidFalse(p)
        /\ ~(result[p].flag = TRUE /\ result[p].err # NoErr)

C2_Witness ==
    \E p \in Invocations :
      /\ Done(p) /\ IsUplink(p) /\ ValidatorSaidFalse(p)
      /\ ~result[p].fields.nil
      /\ result[p].flag = FALSE /\ result[p].err = NoErr

\* ------------------------------------------------------------------------
\* C3
\* ------------------------------------------------------------------------

Slot(name) ==
    IF name = "Decoder" THEN uplinkFns.Decoder
    ELSE IF name = "Converter" THEN uplinkFns.Converter
    ELSE IF name = "Validator" THEN uplinkFns.Validator
    ELSE downlinkFns.Encoder

\* C3: an empty function never reaches RunCode; an empty Decoder yields
\* nil fields and the pipeline goes on, an empty Converter hands its input
\* on, an empty Validator yields true, so that with all three empty the
\* uplink pipeline returns (nil, true, nil); an empty Encoder makes the
\* downlink pipeline return (nil, false, MissingEncoder).
C3_EmptySlots ==
    \A p \in Invocations :
      /\ \A i \in 1..Len(calls[p]) :
           /\ calls[p][i].code.script # ""
           /\ Slot(calls[p][i].name) # ""
      /\ (uplinkFns.Decoder = "" /\ pc[p] \in {"convert", "converting", "validate", "validating"})
           => decoded[p] = NilMap
      /\ (uplinkFns.Converter = "" /\ pc[p] \in {"validate", "validating"})
           => converted[p] = decoded[p]
      /\ (Done(p) /\ IsUplink(p) /\ uplinkFns.Validator = "" /\ result[p].err = NoErr)
           => result[p] = Result(ConvertOutput(p), TRUE, NilBytes, NoErr)
      /\ (Done(p) /\ IsUplink(p) /\ uplinkFns.Decoder = ""
            /\ uplinkFns.Converter = "" /\ uplinkFns.Validator = "")
           => result[p] = Result(NilMap, TRUE, NilBytes, NoErr)
      /\ (Done(p) /\ IsDownlink(p) /\ downlinkFns.Encoder = "")
           => /\ result[p].fields = NilMap /\ result[p].bytes = NilBytes
              /\ result[p].flag = FALSE
              /\ IsMissingEncoder(result[p].err)

C3_Witness ==
    \E p \in Invocations :
      /\ Done(p) /\ IsUplink(p)
      /\ uplinkFns.Decoder = "" /\ uplinkFns.Converter = ""
      /\ uplinkFns.Validator = ""
      /\ calls[p] = <<>>
      /\ result[p] = Result(NilMap, TRUE, NilBytes, NoErr)

\* ------------------------------------------------------------------------
\* C4
\* ------------------------------------------------------------------------

\* the invocation ended in an error at its i-th RunCode call
FailedAt(p, i) == Done(p) /\ i = Len(outs[p]) /\ result[p].err # NoErr

\* C4: of the values RunCode returns, Decode and Convert accept the
\* objects only and Validate the booleans only; every other tag (an array
\* too) ends the stage with InvalidReturnType naming the function; Encode
\* ends with InvalidReturnType on every value that is no array.
C4_TagChecked ==
    \A p \in Invocations : \A i \in 1..Len(outs[p]) :
      LET name == calls[p][i].name
          out == outs[p][i]
          accepted == IF name \in {"Decoder", "Converter"} THEN "Object"
                      ELSE IF name = "Validator" THEN "Boolean"
                      ELSE "Array"
      IN out.err = NoErr =>
           /\ (name # "Encoder" /\ out.value.tag = accepted) => ~FailedAt(p, i)
           /\ out.value.tag # accepted =>
                /\ FailedAt(p, i)
                /\ IsInvalidReturnType(result[p].err)
                /\ result[p].err.name = name

C4_Witness ==
    \E p \in Invocations :
      /\ Done(p) /\ IsUplink(p) /\ Len(outs[p]) > 0
      /\ LastCall(p).name = "Decoder"
      /\ LastOut(p).err = NoErr /\ LastOut(p).value.tag = "Array"
      /\ IsInvalidReturnType(result[p].err)
      /\ result[p].err.name = "Decoder"

\* ------------------------------------------------------------------------
\* C5
\* ------------------------------------------------------------------------

\* the array the Encoder returned, when it returned one
EncoderArray(p) == LastOut(p).value.arr

EncoderReturnedArray(p) ==
    /\ Len(outs[p]) > 0
    /\ LastOut(p).err = NoErr
    /\ LastOut(p).value.tag = "Array"

\* C5: with an Encoder, the downlink pipeline returns (bytes, true, nil)
\* if and only if RunCode succeeded with an array all of whose elements
\* are whole numbers in [0,255]; bytes then has the length of the array
\* and bytes[i] is element i; every byte returned is in [0,255].
C5_BytesIffWholeBytes ==
    \A p \in Invocations :
      (Done(p) /\ IsDownlink(p) /\ downlinkFns.Encoder # "") =>
        LET good == /\ EncoderReturnedArray(p)
                    /\ \A i \in 1..Len(EncoderArray(p)) :
                         WholeByte(EncoderArray(p)[i])
            r == result[p]
        IN /\ (r.flag = TRUE /\ r.err = NoErr /\ ~r.bytes.nil) <=> good
           /\ good => /\ Len(r.bytes.b) = Len(EncoderArray(p))
                      /\ \A i \in 1..Len(r.bytes.b) :
                           r.bytes.b[i] = EncoderArray(p)[i].lo
           /\ \A i \in 1..Len(r.bytes.b) :
                r.bytes.b[i] >= 0 /\ r.bytes.b[i] <= 255

\* ------------------------------------------------------------------------
\* C6
\* ------------------------------------------------------------------------

Below0(el) == el.hi < 0 \/ (el.hi = 0 /\ el.lo < 0)

Above255(el) == el.hi > 0 \/ (el.hi = 0 /\ el.lo > 255)

\* the index of the first element that is no whole number in [0,255]
FirstOffending(s) ==
    CHOOSE k \in 1..Len(s) :
      /\ ~WholeByte(s[k])
      /\ \A j \in 1..(k - 1) : WholeByte(s[j])

\* C6: when the array of the Encoder has an offending element, the
\* downlink pipeline returns (nil, false, err), and the first offending
\* element decides err: InvalidReturnType for a number with a fractional
\* part and for an element that is no number, OutOfRange for a whole
\* number below 0 or above 255.
C6_FirstOffendingDecides ==
    \A p \in Invocations :
      (/\ Done(p) /\ IsDownlink(p) /\ EncoderReturnedArray(p)
       /\ \E i \in 1..Len(EncoderArray(p)) : ~WholeByte(EncoderArray(p)[i])) =>
        LET el == EncoderArray(p)[FirstOffending(EncoderArray(p))]
            r == result[p]
        IN /\ r.bytes = NilBytes /\ r.flag = FALSE /\ r.err # NoErr
           /\ ~IsWhole(el) => IsInvalidReturnType(r.err)
           /\ (IsWhole(el) /\ (Below0(el) \/ Above255(el))) => IsOutOfRange(r.err)

\* ------------------------------------------------------------------------
\* C7
\* ------------------------------------------------------------------------

\* the function that was executing when the invocation ended
ExecutingStage(p) ==
    IF Len(calls[p]) > 0 THEN LastCall(p).name ELSE "Encoder"

\* C7: every error an invocation returns carries the name of the
\* function that was executing, one of Decoder, Converter, Validator,
\* Encoder, OutOfRange and MissingEncoder included.
C7_ErrorNamesTransform ==
    \A p \in Invocations :
      (Done(p) /\ result[p].err # NoErr) =>
        /\ result[p].err.name \in StageNames
        /\ result[p].err.name = ExecutingStage(p)

\* ------------------------------------------------------------------------
\* C8
\* ------------------------------------------------------------------------

\* C8: an uplink invocation calls RunCode in the order Decoder, Converter,
\* Validator and at most once for each; the Converter is given the output
\* of Decode and the Validator the output of Convert, each with the port
\* of the caller; after the first stage that fails no further call is
\* made and the error of RunCode is returned as it is.
C8_StagesInOrder ==
    \A p \in Invocations :
      IsUplink(p) =>
        /\ \A i, j \in 1..Len(calls[p]) :
             i < j => Pos(calls[p][i].name) < Pos(calls[p][j].name)
        /\ \A i \in 1..Len(calls[p]) :
             LET c == calls[p][i] IN
               /\ c.name \in {"Decoder", "Converter", "Validator"}
               /\ c.env.port = args[p].port
               /\ c.name = "Decoder" => c.env.bytes = args[p].bytes
               /\ c.name = "Converter" => c.env.map = DecodeOutput(p)
               /\ c.name = "Validator" => c.env.map = ConvertOutput(p)
        /\ \A i \in 1..Len(outs[p]) :
             StageFailed(calls[p][i].name, outs[p][i]) =>
               /\ Done(p)
               /\ i = Len(calls[p])
               /\ result[p].err # NoErr
               /\ outs[p][i].err # NoErr => result[p].err = outs[p][i].err

C8_Witness ==
    \E p \in Invocations :
      /\ Done(p) /\ IsUplink(p)
      /\ uplinkFns.Validator # ""
      /\ Len(calls[p]) > 1
      /\ LastCall(p).name = "Converter"
      /\ ~DecodeOutput(p).nil
      /\ result[p].err = LastOut(p).err
      /\ result[p].err.type = "Timeout"

\* ------------------------------------------------------------------------
\* C9
\* ------------------------------------------------------------------------

\* C9: every invocation returns: it is never stuck before its return,
\* every RunCode call is given the same timeout, a function stopped at
\* the timeout makes the pipeline return (nil, false, err) with the
\* timeout as err, and an uplink invocation makes at most three RunCode
\* calls and a downlink invocation at most one.
C9_BoundedAndReturns ==
    \A p \in active :
      /\ Done(p) \/ ENABLED Step(p)
      /\ \A i \in 1..Len(calls[p]) : calls[p][i].timeout = DefaultTimeOut
      /\ IsUplink(p) => Len(calls[p]) <= 3
      /\ IsDownlink(p) => Len(calls[p]) <= 1
      /\ \A i \in 1..Len(outs[p]) :
           outs[p][i].err.type = "Timeout" =>
             /\ Done(p)
             /\ result[p] = Result(NilMap, FALSE, NilBytes, outs[p][i].err)

\* ------------------------------------------------------------------------
\* C10
\* ------------------------------------------------------------------------

\* what RunCode may return for the function named name on the given
\* bindings, when nothing else runs
Alone(name, script, invoke, env) ==
    RunCode(name, Code(script, invoke), env, DefaultTimeOut)

\* the results of the Validate stage and of the pipeline on field map m
ValidateAlone(m, port) ==
    IF uplinkFns.Validator = ""
    THEN {Result(m, TRUE, NilBytes, NoErr)}
    ELSE {Result(m, ValidateResult(o).valid, NilBytes, ValidateResult(o).err) :
            o \in Alone("Validator", uplinkFns.Validator,
                        "Validator(fields, port)",
                        Env({"fields", "port"}, <<>>, m, port))}

\* the results of the Convert stage and what follows it on field map m
ConvertAlone(m, port) ==
    IF uplinkFns.Converter = ""
    THEN ValidateAlone(m, port)
    ELSE UNION {
           IF ConvertResult(o).err # NoErr
           THEN {Result(NilMap, FALSE, NilBytes, ConvertResult(o).err)}
           ELSE ValidateAlone(ConvertResult(o).m, port)
           : o \in Alone("Converter", uplinkFns.Converter,
                         "Converter(fields, port)",
                         Env({"fields", "port"}, <<>>, m, port)) }

\* the results of an uplink invocation that runs alone
UplinkAlone(payload, port) ==
    IF uplinkFns.Decoder = ""
    THEN ConvertAlone(NilMap, port)
    ELSE UNION {
           IF DecodeResult(o).err # NoErr
           THEN {Result(NilMap, FALSE, NilBytes, DecodeResult(o).err)}
           ELSE ConvertAlone(DecodeResult(o).m, port)
           : o \in Alone("Decoder", uplinkFns.Decoder,
                         "Decoder(payload.slice(0), port);",
                         Env({"payload", "port"}, payload, NilMap, port)) }

\* the results of a downlink invocation that runs alone
DownlinkAlone(fields, port) ==
    IF downlinkFns.Encoder = ""
    THEN {Result(NilMap, FALSE, NilBytes, MissingEncoderError)}
    ELSE UNION {
           {IF r.err # NoErr
            THEN Result(NilMap, FALSE, NilBytes, r.err)
            ELSE Result(NilMap, TRUE, r.bytes, NoErr) : r \in EncodeResult(o)}
           : o \in Alone("Encoder", downlinkFns.Encoder,
                         "Encoder(payload, port)",
                         Env({"payload", "port"}, <<>>, fields, port)) }

\* every RunCode call of p binds the arguments and the stage outputs of p
OwnBindings(p) ==
    \A i \in 1..Len(calls[p]) :
      LET c == calls[p][i] IN
        /\ c.env.port = args[p].port
        /\ c.name = "Decoder" =>
             (c.env.names = {"payload", "port"} /\ c.env.bytes = args[p].bytes)
        /\ c.name = "Converter" =>
             (c.env.names = {"fields", "port"} /\ c.env.map = DecodeOutput(p))
        /\ c.name = "Validator" =>
             (c.env.names = {"fields", "port"} /\ c.env.map = ConvertOutput(p))
        /\ c.name = "Encoder" =>
             (c.env.names = {"payload", "port"} /\ c.env.map = args[p].map)

IsolatedResults ==
    \A p \in Invocations :
      /\ OwnBindings(p)
      /\ (Done(p) /\ IsUplink(p))
           => result[p] \in UplinkAlone(args[p].bytes, args[p].port)
      /\ (Done(p) /\ IsDownlink(p))
           => result[p] \in DownlinkAlone(args[p].map, args[p].port)

\* C10: in every interleaving of two invocations on the same function
\* objects, each RunCode call of an invocation binds that invocation's
\* own payload, fields and port, the result of an invocation is the
\* result it has when it runs alone, and no step writes the function
\* objects or timeOut.
C10_Isolation ==
    /\ []IsolatedResults
    /\ [][/\ uplinkFns' = uplinkFns
          /\ downlinkFns' = downlinkFns
          /\ timeOut' = timeOut]_vars

\* both invocations wait for RunCode at the same time, for the same stage
\* and with different fields, A having returned from a stage before
C10_Witness ==
    /\ running["A"] # NoCall /\ running["B"] # NoCall
    /\ running["A"].name = "Validator" /\ running["B"].name = "Validator"
    /\ running["A"].env.map # running["B"].env.map
    /\ Len(outs["A"]) > 0

====
